---- MODULE Spec2Model ----
(***************************************************************************)
(* The relational schema of database/models.py (six tables on one common   *)
(* BaseModel) and the recreate_database script that drops, recreates and   *)
(* seeds them, as a state machine over the content of the database.        *)
(***************************************************************************)
EXTENDS Integers, FiniteSets, Sequences, TLC

\* ---------------------------------------------------------------- bounds
\* Largest value the wall clock takes.
MaxClock == 7
\* Largest number of statements (inserts and updates) the application issues.
MaxStatements == 2

\* ---------------------------------------------------------------- schema
Tables == {"reception", "department", "customer", "course", "vacancy", "news"}

\* The tables that carry a ForeignKey to department.
Dependents == {"customer", "course", "vacancy", "news"}

\* A nullable department_id holding NULL, and a nullable department_name
\* holding NULL.
NULL == 0
NullName == "NULL"

\* Column(..., ForeignKey('department.<column>')): the department column a
\* table's reference points to, "none" for a table without a foreign key.
ForeignKeyOmitted(t) ==
    CASE t = "customer" -> "department_name"
      [] t \in {"course", "vacancy"} -> "id"
      [] OTHER -> "none"

ForeignKey(t) ==
    CASE t = "customer" -> "department_name"
      [] t \in {"course", "vacancy", "news"} -> "id"
      [] OTHER -> "none"

\* Department.department_name is declared unique=True.
DepartmentNameNotUnique == FALSE

DepartmentNameUnique == TRUE

\* Reception's counters are declared default=1.
ReceptionDefault == 1

\* The names a Department is inserted or renamed with, the department names
\* a Customer is inserted with, and the department ids a Course, Vacancy or
\* News row is inserted with.
DepartmentNames == {"Python", "Go"}
CustomerRefs == {"Python", "Go", NullName}
DepartmentRefs == {1, 5, NULL}

\* -------------------------------------------------------------- variables
VARIABLES
    db,              \* the committed content of the database
    dialect,         \* how the engine generates an autoincrement identity
    clock,           \* datetime.datetime.now()
    pc,              \* position of the recreate_database script
    server_default,  \* the two str(datetime.datetime.now()) of the script's import
    lastOp,          \* the last statement and what it returned or raised
    everIds,         \* history: the ids the rows of each table ever had
    statements,      \* history: the statements the application has issued
    snap             \* history: the rows left by the run just before this one

vars == <<db, dialect, clock, pc, server_default, lastOp, everIds, statements, snap>>

\* ---------------------------------------------------------------- helpers
Max(S) == CHOOSE x \in S : \A y \in S : y <= x

Ids(d, t) == {r.id : r \in d.rows[t]}

Names(d) == {r.department_name : r \in d.rows["department"]}

RowById(d, t, i) == CHOOSE r \in d.rows[t] : r.id = i

\* The value of a dependent row's reference to department.
Reference(t, r) == IF t = "customer" THEN r.department_name ELSE r.department_id

\* No script is running: the application may use the database.
Quiescent == pc \in {"idle", "done", "failed_connect", "failed_department", "failed_course"}

NoOp == [op |-> "none", table |-> "none", result |-> "ok", id |-> 0, at |-> 0,
         name |-> NullName, dept |-> NULL, fresh |-> TRUE]

NoSnap == [valid |-> FALSE, rows |-> [t \in Tables |-> {}]]

\* BaseModel.id: Integer, primary_key=True, autoincrement=True.  The engine
\* either draws the identity from a sequence owned by the column (SERIAL) or
\* takes the largest id of the table plus one (INTEGER PRIMARY KEY rowid).
autoincrement(d, t) ==
    IF dialect = "sequence" THEN d.seq[t]
    ELSE IF Ids(d, t) = {} THEN 1 ELSE Max(Ids(d, t)) + 1

\* The sequence after a statement drew an identity from it: a value drawn is
\* never given back, also when the statement fails.
Drawn(d, t) ==
    IF dialect = "sequence" /\ d.exists THEN [d EXCEPT !.seq[t] = @ + 1] ELSE d

\* BaseModel.created_at and BaseModel.updated_at of a row inserted without
\* them: the literal DEFAULT written into the table's DDL.
Stamped(d, r) ==
    [f \in DOMAIN r \cup {"created_at", "updated_at"} |->
        IF f = "created_at" THEN d.ddl.created_at
        ELSE IF f = "updated_at" THEN d.ddl.updated_at
        ELSE r[f]]

\* The engine of database.settings enforces the foreign keys the tables
\* declare (a violation surfaces as a storage-layer error).
ForeignKeysEnforced == TRUE

\* Whether the reference v of a row of table t satisfies t's foreign key.
ForeignKeyHolds(d, t, v) ==
    CASE ~ForeignKeysEnforced -> TRUE
      [] ForeignKey(t) = "department_name" -> v = NullName \/ v \in Names(d)
      [] ForeignKey(t) = "id" -> v = NULL \/ v \in Ids(d, "department")
      [] OTHER -> TRUE

\* What the engine answers to the INSERT of row r (id included) into t.
InsertResult(d, t, r) ==
    IF ~d.exists THEN "UndefinedTable"
    ELSE IF r.id \in Ids(d, t) THEN "UniqueViolation"
    ELSE IF t = "department" /\ DepartmentNameUnique
            /\ r.department_name \in Names(d) THEN "UniqueViolation"
    ELSE IF t \in Dependents /\ ~ForeignKeyHolds(d, t, Reference(t, r))
         THEN "ForeignKeyViolation"
    ELSE "ok"

\* The database after the INSERT of row r into t.
Inserted(d, t, r) ==
    IF InsertResult(d, t, r) = "ok"
    THEN [d EXCEPT !.rows[t] = @ \cup {Stamped(d, r)}]
    ELSE d

\* ------------------------------------------------------------------- Init
\* A database without tables, and no process started.
Init ==
    /\ db = [exists |-> FALSE,
             rows |-> [t \in Tables |-> {}],
             seq |-> [t \in Tables |-> 1],
             ddl |-> [created_at |-> 0, updated_at |-> 0]]
    /\ dialect \in {"sequence", "rowid"}
    /\ clock = 1
    /\ pc = "idle"
    /\ server_default = [created_at |-> 0, updated_at |-> 0]
    /\ lastOp = NoOp
    /\ everIds = [t \in Tables |-> {}]
    /\ statements = 0
    /\ snap = NoSnap

\* ------------------------------------------- statements of the application
\* session.add(<row without id>) and commit, or insert(<table>).values(...)
\* without id: the engine generates the id, then checks the constraints.
Insert(t, fields, name, dept) ==
    LET id == autoincrement(db, t)
        r == [f \in DOMAIN fields \cup {"id"} |-> IF f = "id" THEN id ELSE fields[f]]
        res == InsertResult(db, t, r)
    IN  /\ Quiescent
        /\ statements < MaxStatements
        /\ statements' = statements + 1
        /\ db' = Inserted(Drawn(db, t), t, r)
        /\ lastOp' = [op |-> "insert", table |-> t, result |-> res, id |-> id,
                      at |-> clock, name |-> name, dept |-> dept,
                      fresh |-> id \notin everIds[t]]
        /\ everIds' = IF res = "ok" THEN [everIds EXCEPT ![t] = @ \cup {id}] ELSE everIds
        /\ pc' = "idle"
        /\ UNCHANGED <<dialect, clock, server_default, snap>>

InsertReception ==
    Insert("reception", [apply |-> ReceptionDefault], NullName, NULL)

InsertDepartment(name) ==
    Insert("department", [department_name |-> name], name, NULL)

InsertCustomer(name) ==
    Insert("customer", [department_name |-> name], name, NULL)

InsertCourse(dept) ==
    Insert("course", [department_id |-> dept, department_info |-> "info"], NullName, dept)

InsertVacancy(dept) ==
    Insert("vacancy", [department_id |-> dept], NullName, dept)

InsertNews(dept) ==
    Insert("news", [department_id |-> dept], NullName, dept)

\* onupdate=datetime.datetime.now: the updated_at an UPDATE statement writes.
onupdateMissing(old, now) == old

onupdate(old, now) == now

\* What the engine answers to the UPDATE of row r of table t into row n.
UpdateResult(d, t, r, n) ==
    IF t = "department" /\ n.department_name # r.department_name
       /\ DepartmentNameUnique /\ n.department_name \in Names(d)
    THEN "UniqueViolation"
    ELSE IF t = "department" /\ n.department_name # r.department_name
            /\ ForeignKeysEnforced
            /\ ForeignKey("customer") = "department_name"
            /\ \E c \in d.rows["customer"] : c.department_name = r.department_name
    THEN "ForeignKeyViolation"
    ELSE IF t \in Dependents /\ ~ForeignKeyHolds(d, t, Reference(t, n))
    THEN "ForeignKeyViolation"
    ELSE "ok"

\* An UPDATE of one row through the session: the changed field and
\* updated_at are written together; the clock is read once.
Update(t, r, changed, name, dept) ==
    LET n == [changed EXCEPT !.updated_at = onupdate(r.updated_at, clock)]
        res == UpdateResult(db, t, r, n)
    IN  /\ Quiescent
        /\ clock < MaxClock
        /\ statements < MaxStatements
        /\ statements' = statements + 1
        /\ changed # r
        /\ db' = IF res = "ok"
                 THEN [db EXCEPT !.rows[t] = (@ \ {r}) \cup {n}]
                 ELSE db
        /\ clock' = clock + 1
        /\ lastOp' = [op |-> "update", table |-> t, result |-> res, id |-> r.id,
                      at |-> clock, name |-> name, dept |-> dept, fresh |-> TRUE]
        /\ pc' = "idle"
        /\ UNCHANGED <<dialect, server_default, everIds, snap>>

\* A press of the APPLY button counted on a Reception row.
UpdateReception ==
    \E r \in db.rows["reception"] :
        Update("reception", r, [r EXCEPT !.apply = @ + 1], NullName, NULL)

UpdateDepartment(name) ==
    \E r \in db.rows["department"] :
        Update("department", r, [r EXCEPT !.department_name = name], name, NULL)

UpdateCustomer(name) ==
    \E r \in db.rows["customer"] :
        Update("customer", r, [r EXCEPT !.department_name = name], name, NULL)

UpdateDepartmentId(t, dept) ==
    \E r \in db.rows[t] :
        Update(t, r, [r EXCEPT !.department_id = dept], NullName, dept)

\* ------------------------------------------------------ recreate_database
\* The database content without created_at and updated_at.
Strip(d) ==
    [t \in Tables |->
        {[f \in DOMAIN r \ {"created_at", "updated_at"} |-> r[f]] : r \in d.rows[t]}]

\* Base.metadata.drop_all: every table of the metadata is dropped, and with
\* a table its rows and the sequence its id column owns.
drop_allKeepsReception(d) ==
    [d EXCEPT !.exists = FALSE,
              !.rows = [t \in Tables |-> IF t = "reception" THEN d.rows[t] ELSE {}],
              !.seq = [t \in Tables |-> 1]]

drop_allKeepsSequences(d) ==
    [d EXCEPT !.exists = FALSE,
              !.rows = [t \in Tables |-> {}]]

drop_all(d) ==
    [d EXCEPT !.exists = FALSE,
              !.rows = [t \in Tables |-> {}],
              !.seq = [t \in Tables |-> 1]]

\* Base.metadata.create_all: the tables are created with the server_default
\* literals of the process that emits the DDL.
create_all(d, default) ==
    [d EXCEPT !.exists = TRUE, !.ddl = default]

\* The Department objects handed to session.add_all, ids given explicitly.
DepartmentsJavaMisnumbered ==
    << [id |-> 1, department_name |-> "Python"],
       [id |-> 2, department_name |-> "System Administrator"],
       [id |-> 3, department_name |-> "Javascript"],
       [id |-> 5, department_name |-> "Java"] >>

Departments ==
    << [id |-> 1, department_name |-> "Python"],
       [id |-> 2, department_name |-> "System Administrator"],
       [id |-> 3, department_name |-> "Javascript"],
       [id |-> 4, department_name |-> "Java"] >>

\* The two insert(Course) statements the script builds: python_info with
\* python.id, and the one bound to the name sys_admin, whose sys_admin.id is
\* read before the name is rebound.
python_info == [department_id |-> Departments[1].id, department_info |-> "python_info"]

sys_admin == [department_id |-> Departments[2].id, department_info |-> "sys_admin_info"]

\* The statements handed to session.execute.
Executed == << python_info >>

\* The flush of the session: the rows are inserted in order with the ids
\* they carry; no identity is drawn.
RECURSIVE Flush(_, _, _)
Flush(d, t, rows) ==
    IF rows = << >> THEN d
    ELSE Flush(Inserted(d, t, Head(rows)), t, Tail(rows))

RECURSIVE FlushOk(_, _, _)
FlushOk(d, t, rows) ==
    IF rows = << >> THEN TRUE
    ELSE /\ InsertResult(d, t, Head(rows)) = "ok"
         /\ FlushOk(Inserted(d, t, Head(rows)), t, Tail(rows))

\* session.execute of insert statements without id, one after the other.
RECURSIVE Execute(_, _, _)
Execute(d, t, stmts) ==
    IF stmts = << >> THEN d
    ELSE LET id == autoincrement(d, t)
             r == [f \in DOMAIN Head(stmts) \cup {"id"} |->
                      IF f = "id" THEN id ELSE Head(stmts)[f]]
         IN  Execute(Inserted(Drawn(d, t), t, r), t, Tail(stmts))

RECURSIVE ExecuteOk(_, _, _)
ExecuteOk(d, t, stmts) ==
    IF stmts = << >> THEN TRUE
    ELSE LET id == autoincrement(d, t)
             r == [f \in DOMAIN Head(stmts) \cup {"id"} |->
                      IF f = "id" THEN id ELSE Head(stmts)[f]]
         IN  /\ InsertResult(d, t, r) = "ok"
             /\ ExecuteOk(Inserted(Drawn(d, t), t, r), t, Tail(stmts))

\* What a failure of the third transaction (session.execute, session.commit)
\* leaves: the first two transactions are committed already.
CourseFailureUndoesDepartments(d) == [d EXCEPT !.rows["department"] = {}]

CourseFailure(d) == d

\* python models.py: the module is imported, which evaluates the two
\* str(datetime.datetime.now()) of BaseModel, then asyncio.run starts.
StartScript ==
    /\ Quiescent
    /\ clock + 1 < MaxClock
    /\ server_default' = [created_at |-> clock, updated_at |-> clock + 1]
    /\ clock' = clock + 2
    /\ pc' = "main"
    /\ snap' = IF pc = "done" THEN [valid |-> TRUE, rows |-> Strip(db)] ELSE NoSnap
    /\ lastOp' = [NoOp EXCEPT !.op = "script"]
    /\ UNCHANGED <<db, dialect, everIds, statements>>

\* async with engine.begin(): drop_all, create_all, commit.
DropCreate ==
    /\ pc = "main"
    /\ db' = create_all(drop_all(db), server_default)
    /\ pc' = "created"
    /\ UNCHANGED <<dialect, clock, server_default, lastOp, everIds, statements, snap>>

\* engine.begin() raises (the data store is not reached): nothing changes.
ConnectFails ==
    /\ pc = "main"
    /\ pc' = "failed_connect"
    /\ lastOp' = [lastOp EXCEPT !.result = "OperationalError"]
    /\ UNCHANGED <<db, dialect, clock, server_default, everIds, statements, snap>>

\* async with session.begin(): add_all of the four Departments, flush and
\* commit on leaving the block; a constraint error rolls the block back.
SeedDepartments ==
    /\ pc = "created"
    /\ IF FlushOk(db, "department", Departments)
       THEN /\ db' = Flush(db, "department", Departments)
            /\ everIds' = [everIds EXCEPT !["department"] =
                              @ \cup {Departments[i].id : i \in DOMAIN Departments}]
            /\ pc' = "seeded"
            /\ lastOp' = lastOp
       ELSE /\ pc' = "failed_department"
            /\ lastOp' = [lastOp EXCEPT !.result = "UniqueViolation"]
            /\ UNCHANGED <<db, everIds>>
    /\ UNCHANGED <<dialect, clock, server_default, statements, snap>>

\* The flush or the commit of the Department block raises: the block is
\* rolled back, the recreated tables stay.
DepartmentStageFails ==
    /\ pc = "created"
    /\ pc' = "failed_department"
    /\ lastOp' = [lastOp EXCEPT !.result = "OperationalError"]
    /\ UNCHANGED <<db, dialect, clock, server_default, everIds, statements, snap>>

\* await session.execute(python_info); await session.commit().
SeedCourse ==
    /\ pc = "seeded"
    /\ IF ExecuteOk(db, "course", Executed)
       THEN /\ db' = Execute(db, "course", Executed)
            /\ everIds' = [everIds EXCEPT !["course"] =
                              @ \cup Ids(Execute(db, "course", Executed), "course")]
            /\ pc' = "done"
            /\ lastOp' = lastOp
       ELSE /\ pc' = "failed_course"
            /\ db' = CourseFailure(db)
            /\ lastOp' = [lastOp EXCEPT !.result = "IntegrityError"]
            /\ UNCHANGED everIds
    /\ UNCHANGED <<dialect, clock, server_default, statements, snap>>

\* session.execute or session.commit raises: the third transaction is
\* rolled back.
CourseStageFails ==
    /\ pc = "seeded"
    /\ pc' = "failed_course"
    /\ db' = CourseFailure(db)
    /\ lastOp' = [lastOp EXCEPT !.result = "OperationalError"]
    /\ UNCHANGED <<dialect, clock, server_default, everIds, statements, snap>>

\* ------------------------------------------------------------------- Next
Next ==
    \/ InsertReception
    \/ \E name \in DepartmentNames : InsertDepartment(name)
    \/ \E name \in CustomerRefs : InsertCustomer(name)
    \/ \E dept \in DepartmentRefs : InsertCourse(dept)
    \/ \E dept \in DepartmentRefs : InsertVacancy(dept)
    \/ \E dept \in DepartmentRefs : InsertNews(dept)
    \/ UpdateReception
    \/ \E name \in DepartmentNames : UpdateDepartment(name)
    \/ \E name \in CustomerRefs : UpdateCustomer(name)
    \/ \E t \in {"course", "vacancy", "news"}, dept \in DepartmentRefs :
          UpdateDepartmentId(t, dept)
    \/ StartScript
    \/ DropCreate
    \/ ConnectFails
    \/ SeedDepartments
    \/ DepartmentStageFails
    \/ SeedCourse
    \/ CourseStageFails

Spec == Init /\ [][Next]_vars

\* ----------------------------------------------------------------- claims
\* The department table as (id, department_name) pairs.
DepartmentTable(d) ==
    {[id |-> r.id, department_name |-> r.department_name] : r \in d.rows["department"]}

FourDepartments ==
    {[id |-> 1, department_name |-> "Python"],
     [id |-> 2, department_name |-> "System Administrator"],
     [id |-> 3, department_name |-> "Javascript"],
     [id |-> 4, department_name |-> "Java"]}

AllEmpty(d) == \A t \in Tables : d.rows[t] = {}

\* C1: when recreate_database has completed, whatever the database held
\* before, the department table holds exactly (1, Python), (2, System
\* Administrator), (3, Javascript), (4, Java).
C1_FourDepartments ==
    pc = "done" => DepartmentTable(db) = FourDepartments

\* A run completed on a database in which the application had stored a
\* Department of its own.
C1_Witness ==
    /\ pc = "done"
    /\ statements > 0
    /\ 5 \in everIds["department"]
    /\ DepartmentTable(db) = FourDepartments

\* C2: when recreate_database has completed, the course table holds exactly
\* two rows, each with a non-empty department_info and the id of an existing
\* Department as department_id.
C2_TwoCourses ==
    pc = "done" =>
        /\ Cardinality(db.rows["course"]) = 2
        /\ \A r \in db.rows["course"] :
              /\ r.department_info # ""
              /\ r.department_id \in Ids(db, "department")

\* C3: a run of recreate_database that follows a completed run leaves the
\* same rows, timestamps aside, as the run before it.
C3_Idempotent ==
    (pc = "done" /\ snap.valid) => Strip(db) = snap.rows

\* The second of two runs in succession has completed, and the two runs
\* wrote different timestamps.
C3_Witness ==
    /\ pc = "done"
    /\ snap.valid
    /\ snap.rows["course"] # {}
    /\ \A r \in db.rows["department"] : r.created_at > 1

\* C4: an insert without id succeeds with an id that no row of the table has
\* or ever had, and two rows of one table never share an id.
C4_FreshIdentity ==
    /\ (lastOp.op = "insert" /\ lastOp.result # "UndefinedTable") => lastOp.fresh
    /\ \A t \in Tables : \A r1, r2 \in db.rows[t] : r1.id = r2.id => r1 = r2

\* C5: the insert of a Department whose name a stored Department has fails
\* with a uniqueness error and leaves the department table as it was, and no
\* two Department rows ever share a department_name.
C5_UniqueName ==
    /\ [](\A r1, r2 \in db.rows["department"] :
             r1.department_name = r2.department_name => r1 = r2)
    /\ [][(/\ lastOp'.op = "insert"
           /\ lastOp'.table = "department"
           /\ lastOp'.name \in Names(db))
          => (/\ lastOp'.result = "UniqueViolation"
              /\ db'.rows["department"] = db.rows["department"])]_vars

\* The insert of a second Department named Python was refused although the
\* id generated for it was free.
C5_Witness ==
    /\ lastOp.op = "insert"
    /\ lastOp.table = "department"
    /\ lastOp.result = "UniqueViolation"
    /\ lastOp.id \notin Ids(db, "department")
    /\ lastOp.name \in Names(db)

\* Whether the reference (name for a Customer, dept for the others) of an
\* insert into t names no Department of d.
Dangling(d, t, name, dept) ==
    IF t = "customer"
    THEN name # NullName /\ name \notin Names(d)
    ELSE dept # NULL /\ dept \notin Ids(d, "department")

\* C6: the insert of a Customer, Course, Vacancy or News row whose reference
\* names no Department fails with a foreign-key error and stores nothing, and
\* every non-null department reference of a stored row names a Department.
C6_ForeignKey ==
    /\ [](/\ \A r \in db.rows["customer"] :
                r.department_name = NullName \/ r.department_name \in Names(db)
          /\ \A t \in {"course", "vacancy", "news"} : \A r \in db.rows[t] :
                r.department_id = NULL \/ r.department_id \in Ids(db, "department"))
    /\ [][(/\ lastOp'.op = "insert"
           /\ lastOp'.table \in Dependents
           /\ db.exists
           /\ Dangling(db, lastOp'.table, lastOp'.name, lastOp'.dept))
          => (/\ lastOp'.result = "ForeignKeyViolation"
              /\ db'.rows = db.rows)]_vars

\* A News row naming department 5 was refused while Departments were stored.
C6_Witness ==
    /\ lastOp.op = "insert"
    /\ lastOp.table = "news"
    /\ lastOp.dept = 5
    /\ lastOp.result = "ForeignKeyViolation"
    /\ db.rows["department"] # {}
    /\ db.rows["news"] = {}

\* C7: an update of a row writes an updated_at greater than the row's
\* created_at and greater than the updated_at the row had.
C7_UpdatedAtGrows ==
    [][(lastOp'.op = "update" /\ lastOp'.result = "ok")
       => LET new == RowById(db', lastOp'.table, lastOp'.id)
              old == RowById(db, lastOp'.table, lastOp'.id)
          IN  /\ new.updated_at > new.created_at
              /\ new.updated_at > old.updated_at]_vars

\* A row was updated for the second time.
C7_Witness ==
    /\ lastOp.op = "update"
    /\ lastOp.result = "ok"
    /\ statements = 2
    /\ \E r \in db.rows[lastOp.table] :
          /\ r.id = lastOp.id
          /\ r.updated_at = lastOp.at
          /\ r.updated_at > db.ddl.updated_at + 1

\* C8: when recreate_database has completed, no row from before the run is
\* left: customer, vacancy, news and reception are empty, department and
\* course hold seed rows only, and every row was stored in the tables this
\* run created.
C8_Destructive ==
    pc = "done" =>
        /\ \A t \in {"customer", "vacancy", "news", "reception"} : db.rows[t] = {}
        /\ DepartmentTable(db) \subseteq FourDepartments
        /\ \A r \in db.rows["course"] :
              r.department_info \in {"python_info", "sys_admin_info"}
        /\ \A t \in Tables : \A r \in db.rows[t] :
              r.created_at = server_default.created_at

\* A run completed on a database that had held a Reception row.
C8_Witness ==
    /\ pc = "done"
    /\ everIds["reception"] # {}
    /\ db.rows["reception"] = {}

\* C9: the created_at of a row inserted without created_at is the clock value
\* at its insertion.
C9_CreatedAtIsInsertionTime ==
    (lastOp.op = "insert" /\ lastOp.result = "ok") =>
        \A r \in db.rows[lastOp.table] : r.id = lastOp.id => r.created_at = lastOp.at

\* C10: the three stages commit one after the other: a failure of the Course
\* stage leaves the four Departments and no Course, a failure of the
\* Department stage leaves the recreated tables empty.
C10_StagesCommitSeparately ==
    /\ pc \in {"created", "failed_department"} => (db.exists /\ AllEmpty(db))
    /\ pc \in {"seeded", "failed_course"} =>
          /\ DepartmentTable(db) = FourDepartments
          /\ db.rows["course"] = {}

\* The Course stage failed on a database the run had emptied of a Course.
C10_Witness ==
    /\ pc = "failed_course"
    /\ lastOp.result = "OperationalError"
    /\ everIds["course"] # {}
    /\ Cardinality(db.rows["department"]) = 4

====
